---- MODULE Spec2Model ----
(***************************************************************************)
(* A model of pypret/mesh_data.py: the MeshData container (a data array    *)
(* with one coordinate axis per dimension, labels and units) and its       *)
(* operations limit, autolimit, interpolate, flip, normalize and copy.     *)
(*                                                                         *)
(* numpy arrays are modelled as views into buffers of a heap, so that      *)
(* basic slicing (a view of the same buffer), fancy indexing and .copy()   *)
(* (a new buffer) and in-place arithmetic keep the sharing the code has.   *)
(* Python lists (labels, units) live in a heap of their own.               *)
(* Floating-point data values are fixed-point integers in units of         *)
(* 1/Scale, with a distinguished NaN.                                      *)
(***************************************************************************)
EXTENDS Integers, Sequences, FiniteSets, TLC

VARIABLES
    heap1,   \* the 1-D array buffers: a sequence, a buffer's reference is its index
    heap2,   \* the 2-D array buffers, row-major
    lists,   \* the Python lists (labels and units), by reference
    objs,    \* the MeshData instances alive: "c" and, after c.copy(), "c2"
    caller,  \* the references the caller holds: its arguments of the constructor and of interpolate
    call,    \* the last call made: operation, instance, arguments, error raised
    before,  \* objs and the heaps before the last call, the call made before it, and
             \* (prior) objs and the heaps before that one
    clean,   \* no call has raised so far
    ncalls   \* number of calls made

vars == <<heap1, heap2, lists, objs, caller, call, before, clean, ncalls>>

----------------------------------------------------------------------------
(* Bounds of the model *)

MaxLen == 3        \* longest axis of a constructed mesh
MaxCoord == 2      \* coordinates and limit bounds are drawn from 0..MaxCoord
MaxCalls == 2      \* calls per behaviour
Scale == 4         \* data values are integers in units of 1/Scale

(* data.ndim of the meshes modelled: interpolate takes exactly two target axes *)
NDim == 2

NaN == 0 - 1

Coord == 0..MaxCoord

----------------------------------------------------------------------------
(* Arithmetic and sequences *)

Abs(x) == IF x < 0 THEN 0 - x ELSE x

Min(a, b) == IF a < b THEN a ELSE b

Max(a, b) == IF a > b THEN a ELSE b

Range(s) == {s[k] : k \in 1..Len(s)}

Iota(n) == [k \in 1..n |-> k]

Reverse(s) == [k \in 1..Len(s) |-> s[Len(s) + 1 - k]]

(* Python's None and a present value, for optional arguments *)
None == [some |-> FALSE, v |-> <<>>]

Some(x) == [some |-> TRUE, v |-> x]

----------------------------------------------------------------------------
(* numpy arrays: a view is a buffer reference and, per dimension, the      *)
(* buffer positions it shows                                               *)

View1(r, n) == [buf |-> r, ix |-> Iota(n)]

View2(r, n0, n1) == [buf |-> r, ix |-> <<Iota(n0), Iota(n1)>>]

Val1(h1, a) == [k \in 1..Len(a.ix) |-> h1[a.buf][a.ix[k]]]

Val2(h2, d) ==
    [i \in 1..Len(d.ix[1]) |-> [j \in 1..Len(d.ix[2]) |-> h2[d.buf][d.ix[1][i]][d.ix[2][j]]]]

size(a) == Len(a.ix)

shape(o) == [j \in 1..Len(o.data.ix) |-> Len(o.data.ix[j])]

ndim(o) == Len(o.data.ix)

(* slice objects: slice(None), slice(start, stop), slice(None, None, -1) *)
slice_None == [kind |-> "all", start |-> 0, stop |-> 0]

slice_range(start, stop) == [kind |-> "range", start |-> start, stop |-> stop]

slice_reversed == [kind |-> "rev", start |-> 0, stop |-> 0]

(* variant: [:0:-1], which loses the first element *)
reversed_from_second(ix) == [k \in 1..(Len(ix) - 1) |-> ix[Len(ix) + 1 - k]]

(* [::-1] *)
reversed(ix) == Reverse(ix)

ApplySlice(ix, sl) ==
    CASE sl.kind = "all" -> ix
      [] sl.kind = "range" -> SubSeq(ix, sl.start + 1, Min(sl.stop, Len(ix)))
      [] sl.kind = "rev" -> reversed(ix)

(* a[sl] for a 1-D array: basic slicing returns a view of the same buffer *)
getitem1(a, sl) == [a EXCEPT !.ix = ApplySlice(a.ix, sl)]

(* variant: data[slices[0]], only the first dimension sliced *)
getitem2_first(d, slices) ==
    [d EXCEPT !.ix = [j \in 1..Len(d.ix) |->
                         IF j = 1 THEN ApplySlice(d.ix[j], slices[j]) ELSE d.ix[j]]]

(* data[(sl0, sl1)]: one slice per dimension, a view of the same buffer *)
getitem2(d, slices) ==
    [d EXCEPT !.ix = [j \in 1..Len(d.ix) |-> ApplySlice(d.ix[j], slices[j])]]

(* np.argmin: the 0-based position of the first smallest element *)
argmin(s) ==
    (CHOOSE k \in 1..Len(s) :
        /\ \A m \in 1..Len(s) : s[k] <= s[m]
        /\ \A m \in 1..(k - 1) : s[m] > s[k]) - 1

(* np.abs(ax - x) *)
abs_diff(ax, x) == [k \in 1..Len(ax) |-> Abs(ax[k] - x)]

----------------------------------------------------------------------------
(* Errors *)

NoError == [kind |-> "none", i |-> 0]

ValueError(msg, i) == [kind |-> msg, i |-> i]

----------------------------------------------------------------------------
(* MeshData.__init__ *)

(* data.copy() and np.array(a).copy(): new buffers holding the values; the  *)
(* labels and units lists are taken as they are, or made when None          *)
MeshData_init(h1, h2, ls, data, axes, labels, units) ==
    LET nh2 == Append(h2, Val2(h2, data))
        d == View2(Len(nh2), Len(data.ix[1]), Len(data.ix[2]))
        nh1 == h1 \o [j \in 1..Len(axes) |-> Val1(h1, axes[j])]
        ax == [j \in 1..Len(axes) |-> View1(Len(h1) + j, size(axes[j]))]
        empty == [j \in 1..Len(axes) |-> ""]
        ls1 == IF labels.some THEN ls ELSE Append(ls, empty)
        lab == IF labels.some THEN labels.v ELSE Len(ls1)
        ls2 == IF units.some THEN ls1 ELSE Append(ls1, empty)
        un == IF units.some THEN units.v ELSE Len(ls2)
        o == [data |-> d, axes |-> ax, labels |-> lab, units |-> un]
    IN  IF ndim(o) # Len(axes)
        THEN [err |-> ValueError("Number of supplied axes is wrong!", 0),
              h1 |-> h1, h2 |-> h2, ls |-> ls, obj |-> o]
        ELSE IF shape(o) # [j \in 1..Len(ax) |-> size(ax[j])]
        THEN [err |-> ValueError("Shape of supplied axes is wrong!", 0),
              h1 |-> h1, h2 |-> h2, ls |-> ls, obj |-> o]
        ELSE [err |-> NoError, h1 |-> nh1, h2 |-> nh2, ls |-> ls2, obj |-> o]

(* MeshData.copy: the constructor on the instance's own fields *)
copy(h1, h2, ls, o) ==
    MeshData_init(h1, h2, ls, o.data, o.axes, Some(o.labels), Some(o.units))

----------------------------------------------------------------------------
(* MeshData.limit *)

(* variant: the indices are not swapped *)
limit_order_noswap(idx1, idx2) ==
    [raised |-> idx1 = idx2, idx1 |-> idx1, idx2 |-> idx2]

(* variant: equal indices are not an error *)
limit_order_noraise(idx1, idx2) ==
    IF idx1 > idx2 THEN [raised |-> FALSE, idx1 |-> idx2, idx2 |-> idx1]
    ELSE [raised |-> FALSE, idx1 |-> idx1, idx2 |-> idx2]

(* idx1 > idx2: swapped; idx1 == idx2: the empty-slice error *)
limit_order(idx1, idx2) ==
    IF idx1 > idx2 THEN [raised |-> FALSE, idx1 |-> idx2, idx2 |-> idx1]
    ELSE IF idx1 = idx2 THEN [raised |-> TRUE, idx1 |-> idx1, idx2 |-> idx2]
    ELSE [raised |-> FALSE, idx1 |-> idx1, idx2 |-> idx2]

(* variant: slice(idx1, idx2), the upper sample left out *)
limit_slice_exclusive(ax, lim) ==
    LET r == limit_order(argmin(abs_diff(ax, lim[1])), argmin(abs_diff(ax, lim[2])))
    IN  [raised |-> r.raised, sl |-> slice_range(r.idx1, r.idx2)]

(* the slice of one requested axis, from the values ax of the axis and the  *)
(* pair lim = (x1, x2)                                                      *)
limit_slice(ax, lim) ==
    LET idx1 == argmin(abs_diff(ax, lim[1]))
        idx2 == argmin(abs_diff(ax, lim[2]))
        r == limit_order(idx1, idx2)
    IN  [raised |-> r.raised, sl |-> slice_range(r.idx1, r.idx2 + 1)]

(* axes.index(j): 0-based position of the first occurrence *)
index(axes, j) ==
    (CHOOSE i \in 1..Len(axes) : axes[i] = j /\ \A m \in 1..(i - 1) : axes[m] # j) - 1

(* the loop over the dimensions j .. ndim-1, then the slicing of data; the  *)
(* axis of a dimension is replaced inside the loop, data after it           *)
RECURSIVE limit_loop(_, _, _, _, _, _)
limit_loop(h1, o, limits, axes, j, slices) ==
    IF j = ndim(o)
    THEN [obj |-> [o EXCEPT !.data = getitem2(@, slices)], err |-> NoError]
    ELSE IF j \in Range(axes)
    THEN LET i == index(axes, j)
             r == limit_slice(Val1(h1, o.axes[j + 1]), limits[i + 1])
         IN  IF r.raised
             THEN [obj |-> o, err |-> ValueError("Selected empty slice along axis", i)]
             ELSE limit_loop(h1, [o EXCEPT !.axes[j + 1] = getitem1(@, r.sl)],
                             limits, axes, j + 1, Append(slices, r.sl))
    ELSE limit_loop(h1, [o EXCEPT !.axes[j + 1] = getitem1(@, slice_None)],
                    limits, axes, j + 1, Append(slices, slice_None))

(* self.limit(limits..., axes=axes) on instance o: the instance after the   *)
(* call and the error raised                                                *)
limit(h1, o, limits, axes) ==
    LET axs == IF axes.some THEN axes.v ELSE [k \in 1..ndim(o) |-> k - 1]
    IN  IF Len(axs) # Len(limits)
        THEN [obj |-> o,
              err |-> ValueError("Number of limits must match the specified axes!", 0)]
        ELSE limit_loop(h1, o, limits, axs, 0, <<>>)

----------------------------------------------------------------------------
(* MeshData.flip *)

(* a Python index, negative ones counting from the end, as a position 1..n *)
pos(k, n) == (IF k < 0 THEN k + n ELSE k) + 1

(* the loop over the listed axes, then self.data[slices]: the list of slices
   indexes as the tuple of its slices (numpy before 1.23) *)
RECURSIVE flip_loop(_, _, _, _)
flip_loop(o, axes, k, slices) ==
    IF k > Len(axes)
    THEN [o EXCEPT !.data = getitem2(@, slices)]
    ELSE LET ax == pos(axes[k], Len(o.axes))
         IN  flip_loop([o EXCEPT !.axes[ax] = getitem1(@, slice_reversed)],
                       axes, k + 1, [slices EXCEPT ![ax] = slice_reversed])

flip(o, axes) ==
    IF Len(axes) = 0 THEN o
    ELSE flip_loop(o, axes, 1, [j \in 1..Len(o.axes) |-> slice_None])

----------------------------------------------------------------------------
(* MeshData.normalize *)

(* data.max(): NaN when any element is NaN *)
data_max(D) ==
    LET elems == {D[i][j] : i \in 1..Len(D), j \in 1..Len(D[1])}
    IN  IF NaN \in elems THEN NaN
        ELSE CHOOSE m \in elems : \A e \in elems : e <= m

(* v / m on floats, the data being non-negative: 0/0 and anything with NaN  *)
(* is NaN                                                                   *)
truediv(v, m) ==
    IF v = NaN \/ m = NaN \/ m = 0 THEN NaN ELSE (v * Scale) \div m

(* self.data /= self.data.max(): written in place, into the buffer the view *)
(* data shows, at the positions it shows                                    *)
normalize(h2, o) ==
    LET d == o.data
        m == data_max(Val2(h2, d))
        B == h2[d.buf]
    IN  [h2 EXCEPT ![d.buf] =
            [i \in 1..Len(B) |-> [j \in 1..Len(B[i]) |->
                IF i \in Range(d.ix[1]) /\ j \in Range(d.ix[2])
                THEN truediv(B[i][j], m) ELSE B[i][j]]]]

----------------------------------------------------------------------------
(* MeshData.interpolate *)

(* np.argsort(v): the index arrays idx (positions 1..n) that put v in       *)
(* ascending order; the default sort is not stable, so equal elements may   *)
(* come in any order                                                        *)
argsort(v) ==
    {idx \in [1..Len(v) -> 1..Len(v)] :
        /\ \A a, b \in 1..Len(v) : a # b => idx[a] # idx[b]
        /\ \A a \in 1..(Len(v) - 1) : v[idx[a]] <= v[idx[a + 1]]}

(* a[idx] and np.take(D, idx, axis=i): a new array *)
take1(v, idx) == [k \in 1..Len(idx) |-> v[idx[k]]]

(* variant: the data is not permuted *)
take_unpermuted(D, idx, i) == D

take(D, idx, i) ==
    IF i = 0 THEN [k \in 1..Len(idx) |-> D[idx[k]]]
    ELSE [r \in 1..Len(D) |-> [k \in 1..Len(idx) |-> D[r][idx[k]]]]

(* the for loop of the sorted=False branch: the source axes and data handed *)
(* to the interpolator, idxs[i+1] being the argsort of dimension i          *)
RECURSIVE sort_loop(_, _, _, _)
sort_loop(axs, D, idxs, i) ==
    IF i = Len(axs) THEN [axes |-> axs, data |-> D]
    ELSE sort_loop([axs EXCEPT ![i + 1] = take1(@, idxs[i + 1])],
                   take(D, idxs[i + 1], i), idxs, i + 1)

strictly_ascending(v) == \A k \in 1..(Len(v) - 1) : v[k] < v[k + 1]

(* RegularGridInterpolator(points, values): raises ValueError unless every  *)
(* axis is strictly ascending and as long as the data along its dimension   *)
interpolator_raises(points, values) ==
    \/ \E i \in 1..Len(points) : ~strictly_ascending(points[i])
    \/ Len(values) # Len(points[1])
    \/ \E r \in 1..Len(values) : Len(values[r]) # Len(points[2])

(* the grid cell of coordinate x: searchsorted(X, x) - 1 clipped to a cell *)
find_index(X, x) ==
    Max(1, Min(Len(X) - 1, Cardinality({k \in 1..Len(X) : X[k] < x})))

(* the linear interpolant at point p = (x, y); fill_value 0.0 out of bounds *)
dataf(points, D, p) ==
    LET X == points[1]
        Y == points[2]
    IN  IF p[1] < X[1] \/ p[1] > X[Len(X)] \/ p[2] < Y[1] \/ p[2] > Y[Len(Y)]
        THEN 0
        ELSE LET i == find_index(X, p[1])
                 j == find_index(Y, p[2])
                 dx == X[i + 1] - X[i]
                 dy == Y[j + 1] - Y[j]
                 a == p[1] - X[i]
                 b == p[2] - Y[j]
             IN  IF NaN \in {D[i][j], D[i + 1][j], D[i][j + 1], D[i + 1][j + 1]}
                 THEN NaN
                 ELSE (D[i][j] * (dx - a) * (dy - b) + D[i + 1][j] * a * (dy - b)
                       + D[i][j + 1] * (dx - a) * b + D[i + 1][j + 1] * a * b)
                      \div (dx * dy)

(* lib.build_coords(axis1, axis2): the outer-product grid of query points *)
build_coords(t1, t2) ==
    [a \in 1..Len(t1) |-> [b \in 1..Len(t2) |-> <<t1[a], t2[b]>>]]

(* interpolate(axis1, axis2, sorted=sorted) on instance o; axis1 and axis2  *)
(* are None or the caller's array; idxs are the argsort results             *)
interpolate(h1, h2, o, axis1, axis2, sorted, idxs) ==
    LET given == <<axis1, axis2>>
        axes == [i \in 1..NDim |-> IF given[i].some THEN given[i].v ELSE o.axes[i]]
        orig == [i \in 1..Len(o.axes) |-> Val1(h1, o.axes[i])]
        src == IF sorted THEN [axes |-> orig, data |-> Val2(h2, o.data)]
               ELSE sort_loop(orig, Val2(h2, o.data), idxs, 0)
        \* orig_axes is self.axes: the sorted arrays are stored into the instance
        nh1 == IF sorted THEN h1 ELSE h1 \o src.axes
        stored == IF sorted THEN o.axes
                  ELSE [i \in 1..Len(o.axes) |-> View1(Len(h1) + i, Len(src.axes[i]))]
        grid == build_coords(Val1(h1, axes[1]), Val1(h1, axes[2]))
        new == [a \in 1..Len(grid) |-> [b \in 1..Len(grid[a]) |->
                   dataf(src.axes, src.data, grid[a][b])]]
    IN  IF interpolator_raises(src.axes, src.data)
        THEN [err |-> ValueError("RegularGridInterpolator", 0), grid |-> src,
              h1 |-> nh1, h2 |-> h2, obj |-> [o EXCEPT !.axes = stored]]
        ELSE [err |-> NoError, grid |-> src,
              h1 |-> h1, h2 |-> Append(h2, new),
              obj |-> [o EXCEPT !.data = View2(Len(h2) + 1, Len(grid), Len(grid[1])),
                                !.axes = axes]]

----------------------------------------------------------------------------
(* MeshData.autolimit *)

(* lib.marginals(data, axes): per requested axis, the data summed over the  *)
(* other dimension                                                          *)
RECURSIVE Sum(_)
Sum(s) ==
    IF Len(s) = 0 THEN 0
    ELSE IF s[1] = NaN \/ Sum(Tail(s)) = NaN THEN NaN
    ELSE s[1] + Sum(Tail(s))

marginals(D, axes) ==
    [i \in 1..Len(axes) |->
        IF pos(axes[i], NDim) = 1
        THEN [k \in 1..Len(D) |-> Sum(D[k])]
        ELSE [k \in 1..Len(D[1]) |-> Sum([r \in 1..Len(D) |-> D[r][k]])]]

(* lib.limit(axis, marginal, threshold, padding): the coordinate intervals  *)
(* (x1, x2) that cover the samples whose marginal exceeds the threshold     *)
(* (1e-2 of the peak); how far the padding widens it is left open           *)
lib_limit(ax, m) ==
    LET peak == CHOOSE v \in Range(m) : \A w \in Range(m) : w <= v
        above == IF NaN \in Range(m) THEN {}
                 ELSE {ax[k] : k \in {n \in 1..Min(Len(ax), Len(m)) : 100 * m[n] > peak}}
    IN  {lim \in Coord \X Coord :
            /\ lim[1] <= lim[2]
            /\ \A x \in above : lim[1] <= x /\ x <= lim[2]}

(* autolimit(axes...) with the intervals limits found by lib.limit *)
autolimit(h1, o, axes, limits) ==
    LET axs == IF Len(axes) = 0 THEN [k \in 1..ndim(o) |-> k - 1] ELSE axes
    IN  limit(h1, o, limits, Some(axs))

(* the for loop of autolimit: the choices of one interval per requested axis *)
autolimit_limits(h1, h2, o, axes) ==
    LET axs == IF Len(axes) = 0 THEN [k \in 1..ndim(o) |-> k - 1] ELSE axes
        m == marginals(Val2(h2, o.data), axs)
        found == [i \in 1..Len(axs) |->
                     lib_limit(Val1(h1, o.axes[pos(axs[i], NDim)]), m[i])]
    IN  IF Len(axs) = 1 THEN {<<x>> : x \in found[1]}
        ELSE {<<x, y>> : x \in found[1], y \in found[2]}

----------------------------------------------------------------------------
(* The calls *)

State == [objs |-> objs, heap1 |-> heap1, heap2 |-> heap2, lists |-> lists]

NoGrid == [axes |-> <<>>, data |-> <<>>]

(* a call ends: the fields and heaps it leaves, and the record of the call *)
Return(op, o, args, err, grid, nobjs, nh1, nh2, nls) ==
    /\ ncalls < MaxCalls
    /\ objs' = nobjs
    /\ heap1' = nh1
    /\ heap2' = nh2
    /\ lists' = nls
    /\ call' = [op |-> op, obj |-> o, args |-> args, err |-> err, grid |-> grid]
    /\ before' = [objs |-> objs, heap1 |-> heap1, heap2 |-> heap2, lists |-> lists,
                  call |-> call,
                  prior |-> [objs |-> before.objs, heap1 |-> before.heap1,
                             heap2 |-> before.heap2, lists |-> before.lists]]
    /\ clean' = (clean /\ err = NoError)
    /\ ncalls' = ncalls + 1
    /\ UNCHANGED caller

Limit(o, limits, axes) ==
    LET r == limit(heap1, objs[o], limits, axes)
    IN  Return("limit", o, [limits |-> limits, axes |-> axes], r.err, NoGrid,
               [objs EXCEPT ![o] = r.obj], heap1, heap2, lists)

Autolimit(o, axes) ==
    \E limits \in autolimit_limits(heap1, heap2, objs[o], axes) :
        LET r == autolimit(heap1, objs[o], axes, limits)
        IN  Return("autolimit", o, [limits |-> limits, axes |-> axes], r.err, NoGrid,
                   [objs EXCEPT ![o] = r.obj], heap1, heap2, lists)

Interpolate(o, axis1, axis2, sorted) ==
    \E idx0 \in (IF sorted THEN {<<>>} ELSE argsort(Val1(heap1, objs[o].axes[1]))),
       idx1 \in (IF sorted THEN {<<>>} ELSE argsort(Val1(heap1, objs[o].axes[2]))) :
        LET r == interpolate(heap1, heap2, objs[o], axis1, axis2, sorted, <<idx0, idx1>>)
        IN  Return("interpolate", o,
                   [axis1 |-> axis1, axis2 |-> axis2, sorted |-> sorted],
                   r.err, r.grid, [objs EXCEPT ![o] = r.obj], r.h1, r.h2, lists)

Flip(o, axes) ==
    Return("flip", o, [axes |-> axes], NoError, NoGrid,
           [objs EXCEPT ![o] = flip(objs[o], axes)], heap1, heap2, lists)

Normalize(o) ==
    Return("normalize", o, <<>>, NoError, NoGrid,
           objs, heap1, normalize(heap2, objs[o]), lists)

(* c2 = c.copy() *)
Copy ==
    /\ DOMAIN objs = {"c"}
    /\ LET r == copy(heap1, heap2, lists, objs["c"])
       IN  Return("copy", "c", <<>>, r.err, NoGrid,
                  IF r.err = NoError THEN objs @@ ("c2" :> r.obj) ELSE objs,
                  r.h1, r.h2, r.ls)

(* o.labels[k] = s or o.units[k] = s, by the instance's user *)
SetLabel(o, field, k, s) ==
    LET ref == IF field = "labels" THEN objs[o].labels ELSE objs[o].units
    IN  /\ k \in 1..Len(lists[ref])
        /\ Return("setlabel", o, [field |-> field, k |-> k], NoError, NoGrid,
                  objs, heap1, heap2, [lists EXCEPT ![ref][k] = s])

(* o.axes[j][k] = x, by the instance's user *)
SetAxis(o, j, k, x) ==
    LET a == objs[o].axes[j + 1]
    IN  /\ k \in 1..size(a)
        /\ Return("setaxis", o, [j |-> j, k |-> k], NoError, NoGrid,
                  objs, [heap1 EXCEPT ![a.buf][a.ix[k]] = x], heap2, lists)

(* the caller writes x into element k of an array it passed as an argument, *)
(* to the constructor (an axis) or to interpolate (a target axis)           *)
CallerWrite(r, k, x) ==
    /\ r \in Range(caller.axes) \cup Range(caller.targets)
    /\ k \in 1..Len(heap1[r])
    /\ Return("callerwrite", "caller", [r |-> r, k |-> k], NoError, NoGrid,
              objs, [heap1 EXCEPT ![r][k] = x], heap2, lists)

(* the caller writes x into the data array it passed to the constructor *)
CallerWriteData(x) ==
    Return("callerwritedata", "caller", <<>>, NoError, NoGrid,
           objs, heap1, [heap2 EXCEPT ![caller.data][1][1] = x], lists)

----------------------------------------------------------------------------
(* Construction: c = MeshData(data, a0, a1, labels=..., units=...) from the *)
(* caller's arrays; the caller also holds the array t it will pass as a     *)
(* target axis. The data values are all different.                          *)

Construct(a0, a1, t, lab) ==
    LET D == [i \in 1..Len(a0) |-> [j \in 1..Len(a1) |-> (i - 1) * Len(a1) + j]]
        ls == IF lab THEN << <<"x", "y", "I">>, <<"m", "s", "au">> >> ELSE <<>>
        r == MeshData_init(<<a0, a1, t>>, <<D>>, ls,
                           View2(1, Len(a0), Len(a1)),
                           <<View1(1, Len(a0)), View1(2, Len(a1))>>,
                           IF lab THEN Some(1) ELSE None,
                           IF lab THEN Some(2) ELSE None)
        st == [objs |-> ("c" :> r.obj), heap1 |-> r.h1, heap2 |-> r.h2, lists |-> r.ls]
        c0 == [op |-> "init", obj |-> "c", args |-> <<>>, err |-> NoError,
               grid |-> NoGrid]
    IN  /\ r.err = NoError
        /\ heap1 = r.h1
        /\ heap2 = r.h2
        /\ lists = r.ls
        /\ objs = st.objs
        /\ caller = [data |-> 1, axes |-> <<1, 2>>, targets |-> <<3>>]
        /\ call = c0
        /\ before = [objs |-> st.objs, heap1 |-> st.heap1, heap2 |-> st.heap2,
                     lists |-> st.lists, call |-> c0, prior |-> st]
        /\ clean = TRUE
        /\ ncalls = 0

(* the arrays of 2..n coordinates, in any order and with repetitions *)
Arrays(n) == UNION {[1..m -> Coord] : m \in 2..n}

(* 0, 1, 2, ... (ascending), its reverse (descending), and 1, 0, 2, ... *)
Ascending(n) == [k \in 1..n |-> Min(k - 1, MaxCoord)]

Descending(n) == Reverse(Ascending(n))

Unsorted(n) == [k \in 1..n |-> IF k = 1 THEN 1 ELSE IF k = 2 THEN 0 ELSE Min(k - 1, MaxCoord)]

Repeated(n) == [k \in 1..n |-> 1]

(* the arguments of the calls *)
Pairs == Coord \X Coord

AxesLists == UNION {[1..m -> 0..(NDim - 1)] : m \in 1..NDim}

AxesArgs == {None} \cup {Some(a) : a \in AxesLists}

LimitArgs == UNION {[1..m -> Pairs] : m \in 1..NDim}

SecondPairs == {<<0, 1>>, <<1, 0>>, <<1, 1>>, <<MaxCoord, 0>>}

FlipArgs == UNION {[1..m -> (0 - NDim)..(NDim - 1)] : m \in 0..NDim}

Targets == {None} \cup {Some(View1(r, Len(heap1[r]))) : r \in Range(caller.targets)}

Written == MaxCoord + 1

----------------------------------------------------------------------------
(* Spec: any MaxCalls calls, of every operation, on a mesh and its copy *)

Init ==
    \E a0 \in {Ascending(MaxLen), Unsorted(MaxLen)},
       a1 \in {Descending(MaxLen), Repeated(2)},
       lab \in BOOLEAN :
        Construct(a0, a1, Descending(2), lab)

(* limit((0, 1), axes=[0]), limit((MaxCoord, 0), (1, 1)) and               *)
(* limit((0, MaxCoord), (MaxCoord, 1))                                      *)
SomeLimits ==
    {[limits |-> << <<0, 1>> >>, axes |-> Some(<<0>>)],
     [limits |-> << <<MaxCoord, 0>>, <<1, 1>> >>, axes |-> None],
     [limits |-> << <<0, MaxCoord>>, <<MaxCoord, 1>> >>, axes |-> None]}

SomeTargets ==
    {<<axis1, axis2, sorted>> \in Targets \X Targets \X BOOLEAN :
        sorted = (axis1.some /\ axis2.some)}

Next ==
    \/ \E o \in DOMAIN objs, a \in SomeLimits : Limit(o, a.limits, a.axes)
    \/ \E o \in DOMAIN objs : Autolimit(o, <<>>)
    \/ \E o \in DOMAIN objs, a \in SomeTargets : Interpolate(o, a[1], a[2], a[3])
    \/ \E o \in DOMAIN objs, axes \in {<<0>>, <<0, 1>>} : Flip(o, axes)
    \/ \E o \in DOMAIN objs : Normalize(o)
    \/ Copy
    \/ \E o \in DOMAIN objs : SetLabel(o, "labels", 1, "new")
    \/ \E o \in DOMAIN objs : SetAxis(o, 0, 1, Written)
    \/ \E r \in {caller.axes[1], caller.targets[1]} : CallerWrite(r, 1, Written)
    \/ CallerWriteData(Written)

Spec == Init /\ [][Next]_vars

----------------------------------------------------------------------------
(* SpecLimit: one limit call, with any arguments, on any constructed mesh *)

InitAny ==
    \E a0 \in Arrays(MaxLen) :
        Construct(a0, Descending(MaxLen), Ascending(2), FALSE)

NextLimit ==
    \E limits \in LimitArgs, axes \in AxesArgs :
        /\ ncalls = 0
        /\ axes.some => Len(axes.v) = Len(limits)
        /\ Len(limits) > 1 => limits[2] \in SecondPairs
        /\ Limit("c", limits, axes)

SpecLimit == InitAny /\ [][NextLimit]_vars

----------------------------------------------------------------------------
(* SpecFlip: flip calls with any argument list *)

NextFlip ==
    \E o \in DOMAIN objs, axes \in FlipArgs : Flip(o, axes)

SpecFlip == Init /\ [][NextFlip]_vars

----------------------------------------------------------------------------
(* SpecInterpolate: one interpolate call on any constructed mesh *)

NextInterpolate ==
    \E axis1 \in Targets, axis2 \in Targets, sorted \in BOOLEAN :
        ncalls = 0 /\ Interpolate("c", axis1, axis2, sorted)

SpecInterpolate == InitAny /\ [][NextInterpolate]_vars

----------------------------------------------------------------------------
(* The properties *)

(* the arrays of instance o in state st, by value *)
MeshArrays(st, o) ==
    [data |-> Val2(st.heap2, st.objs[o].data),
     axes |-> [j \in 1..Len(st.objs[o].axes) |-> Val1(st.heap1, st.objs[o].axes[j])]]

(* the fields of instance o in state st, by value *)
Mesh(st, o) ==
    [data |-> Val2(st.heap2, st.objs[o].data),
     axes |-> [j \in 1..Len(st.objs[o].axes) |-> Val1(st.heap1, st.objs[o].axes[j])],
     labels |-> st.lists[st.objs[o].labels],
     units |-> st.lists[st.objs[o].units]]

ShapeConsistent(o) ==
    /\ Len(o.axes) = ndim(o)
    /\ \A j \in 1..Len(o.axes) : size(o.axes[j]) = shape(o)[j]

NonDecreasing(v) == \A k \in 1..(Len(v) - 1) : v[k] <= v[k + 1]

Perms(n) == {p \in [1..n -> 1..n] : \A a, b \in 1..n : a # b => p[a] # p[b]}

(* the (coordinate, coordinate, value) triples of a mesh *)
Relation(m) ==
    {<<m.axes[1][i], m.axes[2][j], m.data[i][j]>> :
        i \in 1..Len(m.axes[1]), j \in 1..Len(m.axes[2])}

(* the axes a limit call requests, and the 1-based index range            *)
(* [min(idx1, idx2), max(idx1, idx2)] of the samples nearest to a pair     *)
Requested(axes) == IF axes.some THEN axes.v ELSE [k \in 1..NDim |-> k - 1]

Nearest(ax, x) ==
    CHOOSE k \in 1..Len(ax) :
        /\ \A m \in 1..Len(ax) : Abs(ax[k] - x) <= Abs(ax[m] - x)
        /\ \A m \in 1..(k - 1) : Abs(ax[m] - x) > Abs(ax[k] - x)

PairOf(args, j) ==
    LET axs == Requested(args.axes)
        i == CHOOSE n \in 1..Len(axs) : axs[n] = j /\ \A m \in 1..(n - 1) : axs[m] # j
    IN  args.limits[i]

(* C1: as long as every call made has completed, every instance has as     *)
(* many axes as data.ndim and axes[j].size == data.shape[j] for every j;    *)
(* interpolate keeps ndim and makes data.shape[j] the length of target      *)
(* axis j                                                                   *)
C1_ShapeInvariant ==
    clean =>
        /\ \A o \in DOMAIN objs : ShapeConsistent(objs[o])
        /\ call.op = "interpolate" =>
              LET o == objs[call.obj]
                  old == before.objs[call.obj]
                  given == <<call.args.axis1, call.args.axis2>>
              IN  /\ ndim(o) = ndim(old)
                  /\ \A j \in 1..NDim :
                        shape(o)[j] = IF given[j].some THEN Len(heap1[given[j].v.buf])
                                      ELSE size(old.axes[j])

C1_Witness ==
    /\ clean
    /\ call.op = "interpolate"
    /\ before.call.op = "limit"
    /\ call.args.axis1.some
    /\ shape(objs[call.obj]) # shape(before.objs[call.obj])
    /\ shape(before.objs[call.obj]) # shape(before.prior.objs[call.obj])

(* C2: a call on one of c and c2 = c.copy(), or a write to an element of    *)
(* its axes, labels or units, leaves the data, axes, labels and units of    *)
(* the other as they were                                                   *)
C2_CopyIndependence ==
    \A a \in DOMAIN objs, b \in DOMAIN before.objs :
        (a # b /\ call.obj = a) => Mesh(State, b) = Mesh(before, b)

(* C3: no instance's data or axes[j] is an array the caller holds, and no   *)
(* write of the caller to an array it passed changes an instance's data or  *)
(* axes                                                                     *)
C3_SoleOwnership ==
    \A o \in DOMAIN objs :
        /\ objs[o].data.buf # caller.data
        /\ \A j \in 1..Len(objs[o].axes) :
              objs[o].axes[j].buf \notin Range(caller.axes) \cup Range(caller.targets)
        /\ call.obj = "caller" => MeshArrays(State, o) = MeshArrays(before, o)

(* C4: after flip(j); flip(j) data and every axis are as before the first   *)
(* of the two calls                                                         *)
C4_FlipInvolution ==
    (/\ call.op = "flip"
     /\ before.call.op = "flip"
     /\ call.obj = before.call.obj
     /\ Len(call.args.axes) = 1
     /\ call.args.axes = before.call.args.axes)
    => MeshArrays(State, call.obj) = MeshArrays(before.prior, call.obj)

C4_Witness ==
    /\ call.op = "flip"
    /\ before.call.op = "flip"
    /\ call.obj = before.call.obj
    /\ Len(call.args.axes) = 1
    /\ call.args.axes = before.call.args.axes
    /\ MeshArrays(State, call.obj) # MeshArrays(before, call.obj)

(* C5: a limit call has the outcome (the error raised, the data and axes    *)
(* left) of the same call with x1 and x2 exchanged in any of its pairs      *)
C5_LimitOrderIndependent ==
    call.op = "limit" =>
        \A S \in SUBSET (1..Len(call.args.limits)) :
            LET lims == call.args.limits
                swapped == [i \in 1..Len(lims) |->
                               IF i \in S THEN <<lims[i][2], lims[i][1]>> ELSE lims[i]]
                r == limit(before.heap1, before.objs[call.obj], swapped, call.args.axes)
                other == [before EXCEPT !.objs[call.obj] = r.obj]
            IN  /\ r.err = call.err
                /\ MeshArrays(other, call.obj) = MeshArrays(State, call.obj)

C5_Witness ==
    /\ call.op = "limit"
    /\ call.err = NoError
    /\ call.args.axes = Some(<<0>>)
    /\ call.args.limits[1][1] > call.args.limits[1][2]
    /\ ~NonDecreasing(MeshArrays(before, call.obj).axes[1])
    /\ shape(objs[call.obj]) # shape(before.objs[call.obj])

(* C6: a limit call with a pair for every requested axis raises the         *)
(* empty-slice error when the two nearest-sample searches of some requested *)
(* axis give the same index; when it completes every requested axis has at  *)
(* least two samples                                                        *)
C6_LimitDegeneracy ==
    (call.op = "limit" /\ Len(Requested(call.args.axes)) = Len(call.args.limits)) =>
        LET old == MeshArrays(before, call.obj)
            req == Range(Requested(call.args.axes)) \cap (0..(NDim - 1))
        IN  /\ (\E j \in req :
                   Nearest(old.axes[j + 1], PairOf(call.args, j)[1])
                       = Nearest(old.axes[j + 1], PairOf(call.args, j)[2]))
               => call.err.kind = "Selected empty slice along axis"
            /\ call.err = NoError =>
                  \A j \in req : size(objs[call.obj].axes[j + 1]) >= 2

C6_Witness ==
    /\ call.op = "limit"
    /\ call.args.axes = Some(<<0>>)
    /\ call.args.limits[1][1] # call.args.limits[1][2]
    /\ call.err.kind = "Selected empty slice along axis"

(* C7: after a limit call that completes, every requested axis is the old   *)
(* axis restricted to the index range [min(idx1, idx2), max(idx1, idx2)],  *)
(* both ends included, data is restricted to the same ranges, every other   *)
(* axis and the data extent along it are unchanged, and ndim is unchanged   *)
C7_LimitPostcondition ==
    (call.op = "limit" /\ call.err = NoError) =>
        LET old == MeshArrays(before, call.obj)
            new == MeshArrays(State, call.obj)
            req == Range(Requested(call.args.axes))
            idx1(j) == Nearest(old.axes[j + 1], PairOf(call.args, j)[1])
            idx2(j) == Nearest(old.axes[j + 1], PairOf(call.args, j)[2])
            lo(j) == IF j \in req THEN Min(idx1(j), idx2(j)) ELSE 1
            hi(j) == IF j \in req THEN Max(idx1(j), idx2(j)) ELSE Len(old.axes[j + 1])
        IN  /\ ndim(objs[call.obj]) = ndim(before.objs[call.obj])
            /\ Len(new.axes) = Len(old.axes)
            /\ \A j \in 0..(NDim - 1) : new.axes[j + 1] = SubSeq(old.axes[j + 1], lo(j), hi(j))
            /\ new.data = [a \in 1..(hi(0) - lo(0) + 1) |-> [b \in 1..(hi(1) - lo(1) + 1) |->
                              old.data[lo(0) + a - 1][lo(1) + b - 1]]]

C7_Witness ==
    /\ call.op = "limit"
    /\ call.err = NoError
    /\ call.args.axes = Some(<<0>>)
    /\ call.args.limits = << <<0, 1>> >>
    /\ MeshArrays(before, call.obj).axes = <<Ascending(MaxLen), Descending(MaxLen)>>
    /\ shape(objs[call.obj]) = <<2, MaxLen>>
    /\ MeshArrays(State, call.obj).axes = <<Ascending(2), Descending(MaxLen)>>

(* C8: when a limit call raises, data and every axis are as before the call *)
(* and axes[j].size == data.shape[j] for every j                            *)
C8_LimitAtomic ==
    (call.op = "limit" /\ call.err # NoError) =>
        /\ MeshArrays(State, call.obj) = MeshArrays(before, call.obj)
        /\ ShapeConsistent(objs[call.obj])

(* C9: a flip call, whatever its argument list, leaves every coordinate     *)
(* tuple with the data value it had                                         *)
C9_FlipKeepsMapping ==
    call.op = "flip" =>
        Relation(MeshArrays(State, call.obj)) = Relation(MeshArrays(before, call.obj))

(* C10: with sorted=False the source grid handed to the interpolator has    *)
(* every axis ascending, each dimension permuted on its own, the data slice *)
(* at position k of a dimension being the one that was where the coordinate *)
(* now at k was; so every coordinate tuple keeps its data value             *)
C10_SortPerDimension ==
    (call.op = "interpolate" /\ ~call.args.sorted) =>
        LET old == MeshArrays(before, call.obj)
            g == call.grid
        IN  /\ \A i \in 1..NDim : NonDecreasing(g.axes[i])
            /\ \E p0 \in Perms(Len(old.axes[1])), p1 \in Perms(Len(old.axes[2])) :
                  /\ g.axes[1] = [k \in 1..Len(p0) |-> old.axes[1][p0[k]]]
                  /\ g.axes[2] = [k \in 1..Len(p1) |-> old.axes[2][p1[k]]]
                  /\ g.data = [a \in 1..Len(p0) |-> [b \in 1..Len(p1) |-> old.data[p0[a]][p1[b]]]]
            /\ Relation(g) = Relation(old)

C10_Witness ==
    /\ call.op = "interpolate"
    /\ ~call.args.sorted
    /\ call.err = NoError
    /\ ~NonDecreasing(MeshArrays(before, call.obj).axes[1])
    /\ ~NonDecreasing(MeshArrays(before, call.obj).axes[2])
    /\ call.grid.data # MeshArrays(before, call.obj).data

====
